---- MODULE Spec2Model ----
(***************************************************************************)
(* Cell segmentation and edge-intensity quantification                     *)
(* (segment_intensity_batch.py, segment_intensity_demo.py).               *)
(*                                                                         *)
(* Images are single-row rasters (shape 1 x Width) of integer intensities  *)
(* 0..MaxVal.  A floating-point array is kept exactly, as integer          *)
(* numerators px over one shared denominator den; den = 0 stands for the   *)
(* array numpy produces from 0/0, every element NaN.                       *)
(***************************************************************************)
EXTENDS Integers, Sequences, FiniteSets, TLC

VARIABLES
    prog,          \* which script's functions run: "batch" or "demo"
    image,         \* the image argument
    spot_sigma,    \* -s
    outline_sigma, \* -o
    threshold,     \* -t
    locals,        \* cell_segmentation's local variables when it left its try
    seg,           \* how the cell_segmentation call ended
    edge,          \* how the quantify_edge_intensity call ended
    log,           \* the records handed to logging, oldest first
    pc,            \* where the caller stands
    prev,          \* threshold and labels of the call before this one
    listing,       \* the input directory when the batch script starts
    files,         \* os.listdir(input_dir) as the batch loop sees it
    i,             \* the batch loop's position in files
    rows           \* the rows written to results.csv

driver == <<listing, files, i, rows>>

vars == <<prog, image, spot_sigma, outline_sigma, threshold, locals, seg,
          edge, log, pc, prev, listing, files, i, rows>>

Width == 4
MaxVal == 3
ThresholdDen == 2
MaxThresholdNum == 2
MaxFiles == 2
MaxLabel == 3

Pix == 1..Width
Images == [Pix -> 0..MaxVal]
Sigmas == {1, 2}
Thresholds == {[num |-> n, den |-> ThresholdDen] : n \in 0..MaxThresholdNum}
Progs == {"batch", "demo"}

(* What a caller may pass as image: a numeric array, or an object that     *)
(* np.asarray(..., dtype=float64) cannot convert.                          *)
Inputs == {[kind |-> "array", px |-> im] : im \in Images}
            \cup {[kind |-> "object", px |-> [p \in Pix |-> 0]]}

ZeroMap == [p \in Pix |-> 0]

RECURSIVE SumOver(_, _)
SumOver(S, f) ==
    IF S = {} THEN 0
    ELSE LET x == CHOOSE y \in S : TRUE IN f[x] + SumOver(S \ {x}, f)

MinOf(S) == CHOOSE x \in S : \A y \in S : x <= y
MaxOf(S) == CHOOSE x \in S : \A y \in S : x >= y
Range(f) == {f[x] : x \in DOMAIN f}
Only(S) == CHOOSE x \in S : TRUE

IsNaN(img) == img.den = 0

(* np.asarray(image, dtype=np.float64) on a numeric array *)
asarray(im) == [px |-> im.px, den |-> 1]

(* (original - original.min()) / (original.max() - original.min());        *)
(* a flat image gives 0/0 in every pixel (NaN, no exception)               *)
normalize(img) ==
    LET lo == MinOf(Range(img.px))
        hi == MaxOf(Range(img.px))
    IN [px |-> [p \in Pix |-> img.px[p] - lo], den |-> img.den * (hi - lo)]

(* Gaussian kernel exp(-d^2 / (2 sigma^2)) in hundredths, truncated at     *)
(* 4 sigma (skimage's truncate=4.0)                                        *)
GaussianWeight(sigma, d) ==
    IF sigma = 1
    THEN CASE d = 0 -> 100 [] d = 1 -> 61 [] d = 2 -> 14 [] d = 3 -> 1
           [] OTHER -> 0
    ELSE CASE d = 0 -> 100 [] d = 1 -> 88 [] d = 2 -> 61 [] d = 3 -> 32
           [] d = 4 -> 14 [] d = 5 -> 4 [] d = 6 -> 1 [] OTHER -> 0

Abs(d) == IF d < 0 THEN -d ELSE d
Clamp(p) == IF p < 1 THEN 1 ELSE IF p > Width THEN Width ELSE p

(* One output sample of the convolution, mode='nearest': the taps from d   *)
(* up to the truncation radius R                                           *)
RECURSIVE Convolve(_, _, _, _, _)
Convolve(px, sigma, p, d, R) ==
    IF d > R THEN 0
    ELSE GaussianWeight(sigma, Abs(d)) * px[Clamp(p + d)]
           + Convolve(px, sigma, p, d + 1, R)

RECURSIVE WeightSum(_, _, _)
WeightSum(sigma, d, R) ==
    IF d > R THEN 0
    ELSE GaussianWeight(sigma, Abs(d)) + WeightSum(sigma, d + 1, R)

(* skimage.filters.gaussian: the weights are not divided by their sum      *)
(* here, the sum goes into the denominator                                 *)
gaussian(img, sigma) ==
    LET R == 4 * sigma
    IN [px |-> [p \in Pix |-> Convolve(img.px, sigma, p, 0 - R, R)],
        den |-> img.den * WeightSum(sigma, 0 - R, R)]

(* skimage.morphology.local_minima (allow_borders): a plateau is a minimum *)
(* when the pixels next to it are strictly higher; the image is padded     *)
(* with its maximum, so a plateau at the border must lie below the         *)
(* maximum, and a flat image has no minimum. Comparisons with NaN are      *)
(* false: no minimum.                                                      *)
local_minima(img) ==
    LET hi == MaxOf(Range(img.px))
        At(q) == IF q \in Pix THEN img.px[q] ELSE hi
        First(p) == MinOf({q \in 1..p : \A r \in q..p : img.px[r] = img.px[p]})
        Last(p) == MaxOf({q \in p..Width : \A r \in p..q : img.px[r] = img.px[p]})
    IN [p \in Pix |-> ~IsNaN(img)
                      /\ At(First(p) - 1) > img.px[p]
                      /\ At(Last(p) + 1) > img.px[p]]

(* skimage.measure.label: connected components, numbered in raster order *)
label(mask) ==
    [p \in Pix |-> IF mask[p]
                   THEN Cardinality({q \in 1..p :
                            mask[q] /\ (q = 1 \/ ~mask[q - 1])})
                   ELSE 0]

(* image > 0 (False for NaN) *)
positive(img) == [p \in Pix |-> ~IsNaN(img) /\ img.px[p] > 0]

(* The priority queue of the flood: elements <<value, age, index>>,        *)
(* smallest value first, then smallest age (then lowest index).            *)
HeapLess(a, b) ==
    \/ a[1] < b[1]
    \/ a[1] = b[1] /\ a[2] < b[2]
    \/ a[1] = b[1] /\ a[2] = b[2] /\ a[3] <= b[3]

HeapTop(hp) == CHOOSE e \in hp : \A f \in hp : HeapLess(e, f)

(* One neighbour of the popped element: skipped when off the image,        *)
(* outside the mask or already labelled; else labelled and pushed.         *)
Visit(st, from, n, img, mask) ==
    IF n \notin Pix \/ ~mask[n] \/ st.out[n] # 0 THEN st
    ELSE [out |-> [st.out EXCEPT ![n] = st.out[from]],
          hp |-> st.hp \cup {<<img.px[n], st.age + 1, n>>},
          age |-> st.age + 1]

RECURSIVE Flood(_, _, _)
Flood(st, img, mask) ==
    IF st.hp = {} THEN st.out
    ELSE LET e == HeapTop(st.hp)
             s0 == [st EXCEPT !.hp = st.hp \ {e}]
             s1 == Visit(s0, e[3], e[3] - 1, img, mask)
             s2 == Visit(s1, e[3], e[3] + 1, img, mask)
         IN Flood(s2, img, mask)

(* A faulty variant: the mask argument is not passed *)
watershed_unmasked(img, markers, mask) ==
    Flood([out |-> markers,
           hp |-> {<<img.px[p], 0, p>> : p \in {q \in Pix : markers[q] # 0}},
           age |-> 0], img, [p \in Pix |-> TRUE])

(* skimage.segmentation.watershed(image, markers, mask=mask): markers      *)
(* outside the mask are dropped, the rest flood the masked pixels          *)
watershed(img, markers, mask) ==
    LET m0 == [p \in Pix |-> IF mask[p] THEN markers[p] ELSE 0]
    IN Flood([out |-> m0,
              hp |-> {<<img.px[p], 0, p>> : p \in {q \in Pix : m0[q] # 0}},
              age |-> 0], img, mask)

(* regionprops(label_image): the positive labels present (the loop visits  *)
(* them in ascending order), each with its coordinates                     *)
regionprops(lab) == {lab[p] : p \in Pix} \ {0}
coords(lab, l) == {p \in Pix : lab[p] = l}

(* region.mean_intensity under intensity image img, as a fraction *)
mean_intensity(lab, l, img) ==
    [num |-> SumOver(coords(lab, l), img.px),
     den |-> Cardinality(coords(lab, l)) * img.den]

(* a > b for fractions with positive denominators *)
Greater(a, b) == a.num * b.den > b.num * a.den

(* A faulty variant: the comparison is not strict *)
PassesThresholdGE(mean, thr) == ~Greater(thr, mean)

(* A faulty variant: the comparison is reversed *)
PassesThresholdLT(mean, thr) == Greater(thr, mean)

(* if region.mean_intensity > threshold *)
PassesThreshold(mean, thr) == Greater(mean, thr)

(* labels = zeros_like(outlines); for region in regionprops(...):          *)
(*     if mean > threshold: labels[outlines == region.label] = region.label *)
filter_regions(outl, img, thr) ==
    LET kept == {l \in regionprops(outl) :
                    PassesThreshold(mean_intensity(outl, l, img), thr)}
    IN [p \in Pix |-> IF outl[p] \in kept THEN outl[p] ELSE 0]

(* A faulty variant: the new labels are handed out in descending order of  *)
(* the original labels                                                     *)
relabel_descending(lab) ==
    [p \in Pix |-> IF lab[p] = 0 THEN 0
                   ELSE Cardinality({l \in regionprops(lab) : l >= lab[p]})]

(* A faulty variant: the filtered labels are returned without relabelling *)
relabel_skipped(lab) == lab

(* skimage.segmentation.relabel_sequential: the labels present become      *)
(* 1..K in ascending order, 0 stays 0                                      *)
relabel_sequential(lab) ==
    [p \in Pix |-> Cardinality({l \in regionprops(lab) : l <= lab[p]})]

(***************************************************************************)
(* cell_segmentation                                                       *)
(***************************************************************************)

(* The locals when the first statement of the try raised: nothing bound *)
Unbound(exc) ==
    [exc |-> exc, bound |-> FALSE, intensity |-> [px |-> ZeroMap, den |-> 1],
     mask |-> [p \in Pix |-> FALSE], spots |-> ZeroMap, outlines |-> ZeroMap,
     labels |-> ZeroMap, filtered_labels |-> ZeroMap]

(* Blur, seeds, watershed, threshold filter and relabelling on the float   *)
(* image img; the same statements in both scripts. Each intermediate array *)
(* is bound once, as the assignment to a local variable does.              *)
segment_steps(img, ss, os, thr) ==
    Only({Only({Only({Only({
        [exc |-> "none", bound |-> TRUE, intensity |-> img, mask |-> mask,
         spots |-> spots, outlines |-> outl, labels |-> labs,
         filtered_labels |-> relabel_sequential(labs)]
        : labs \in {filter_regions(outl, img, thr)}})
        : outl \in {watershed(outline_blurred, spots, mask)}})
        : spots \in {label(local_minima(spot_blurred))},
          mask \in {positive(img)}})
        : spot_blurred \in {gaussian(img, ss)},
          outline_blurred \in {gaussian(img, IF os # ss THEN os ELSE ss)}})

(* segment_intensity_batch.py: the try block works on the raw intensities *)
try_batch(im, ss, os, thr) ==
    IF im.kind # "array" THEN Unbound("ValueError")
    ELSE Only({segment_steps(img, ss, os, thr) : img \in {asarray(im)}})

(* segment_intensity_demo.py: the try block normalizes first, and after    *)
(* relabelling logs min(intensities), which raises ValueError when         *)
(* regionprops yielded no region                                           *)
try_demo(im, ss, os, thr) ==
    IF im.kind # "array" THEN Unbound("ValueError")
    ELSE Only({IF regionprops(loc.outlines) = {}
               THEN [loc EXCEPT !.exc = "ValueError"]
               ELSE loc
               : loc \in {Only({segment_steps(img, ss, os, thr)
                                : img \in {normalize(asarray(im))}})}})

try_segmentation(p, im, ss, os, thr) ==
    IF p = "batch" THEN try_batch(im, ss, os, thr)
    ELSE try_demo(im, ss, os, thr)

(* logging.info('Successfully segmented image!') at the end of the try, or *)
(* logging.error(f'Error segmenting image: {e}') in the except clause      *)
seg_log(loc) ==
    IF loc.exc = "none"
    THEN [level |-> "INFO", msg |-> "Successfully segmented image!"]
    ELSE [level |-> "ERROR", msg |-> "Error segmenting image"]

(* return filtered_labels: an unbound name raises UnboundLocalError *)
seg_return(loc) ==
    IF loc.bound THEN [kind |-> "return", value |-> loc.filtered_labels]
    ELSE [kind |-> "raise", exc |-> "UnboundLocalError"]

(***************************************************************************)
(* quantify_edge_intensity                                                 *)
(***************************************************************************)

NaN == [num |-> 0, den |-> 0]

(* A faulty variant: only the contour pixels of each region are marked,    *)
(* those with a neighbour of another label                                 *)
perimeters_contour(lab) ==
    [p \in Pix |-> IF lab[p] # 0
                      /\ \E q \in {p - 1, p + 1} \cap Pix : lab[q] # lab[p]
                   THEN 1 ELSE 0]

(* perimeters = zeros_like(image); for region in regionprops(labels):      *)
(*     perimeters[region.coords] = 1                                       *)
perimeters(lab) ==
    [p \in Pix |-> IF \E l \in regionprops(lab) : p \in coords(lab, l)
                   THEN 1 ELSE 0]

(* np.mean over a selection: NaN (with a RuntimeWarning) when it is empty *)
np_mean(px, sel) ==
    IF sel = {} THEN NaN
    ELSE [num |-> SumOver(sel, px), den |-> Cardinality(sel)]

(* edge_intensity = np.mean(image[perimeters > 0]) *)
edge_intensity(px, lab) ==
    np_mean(px, {p \in Pix : perimeters(lab)[p] > 0})

quant_return(px, lab) == [kind |-> "return", value |-> edge_intensity(px, lab)]

(***************************************************************************)
(* The pipeline: segment, then quantify                                    *)
(***************************************************************************)

NoCall == [kind |-> "none"]
NoPrev == [valid |-> FALSE, threshold |-> [num |-> 0, den |-> ThresholdDen],
           labels |-> ZeroMap, filtered_labels |-> ZeroMap]

(* The batch driver is not running *)
NoDriver ==
    /\ listing = [isdir |-> FALSE, entries |-> <<>>]
    /\ files = <<>>
    /\ i = 0
    /\ rows = <<>>

Init ==
    /\ prog \in Progs
    /\ image \in Inputs
    /\ spot_sigma \in Sigmas
    /\ outline_sigma \in Sigmas
    /\ threshold \in Thresholds
    /\ locals = Unbound("none")
    /\ seg = NoCall
    /\ edge = NoCall
    /\ log = <<>>
    /\ pc = "segment"
    /\ prev = NoPrev
    /\ NoDriver

CellSegmentation ==
    /\ pc = "segment"
    /\ \E loc \in {try_segmentation(prog, image, spot_sigma, outline_sigma,
                                      threshold)} :
          /\ locals' = loc
          /\ log' = Append(log, seg_log(loc))
          /\ seg' = seg_return(loc)
          /\ pc' = IF loc.bound THEN "quantify" ELSE "raised"
    /\ edge' = NoCall
    /\ UNCHANGED <<prog, image, spot_sigma, outline_sigma, threshold, prev,
                   driver>>

QuantifyEdgeIntensity ==
    /\ pc = "quantify"
    /\ edge' = quant_return(image.px, seg.value)
    /\ log' = Append(log, [level |-> "INFO", msg |-> "Successfully analyzed image!"])
    /\ pc' = "done"
    /\ UNCHANGED <<prog, image, spot_sigma, outline_sigma, threshold, locals,
                   seg, prev, driver>>

(* The same image and sigmas are segmented again under a higher threshold *)
CallAgain ==
    /\ pc = "done"
    /\ ~prev.valid
    /\ \E t \in Thresholds : t.num > threshold.num /\ threshold' = t
    /\ prev' = [valid |-> TRUE, threshold |-> threshold,
                labels |-> locals.labels,
                filtered_labels |-> locals.filtered_labels]
    /\ pc' = "segment"
    /\ log' = <<>>
    /\ locals' = Unbound("none")
    /\ seg' = NoCall
    /\ edge' = NoCall
    /\ UNCHANGED <<prog, image, spot_sigma, outline_sigma, driver>>

(* quantify_edge_intensity on its own: any image with any label map of the *)
(* same shape (the demo script's copy differs from the batch script's only *)
(* in one more log record)                                                 *)
LabelMaps == [Pix -> {0, 1, 2}]

InitQuantify ==
    /\ prog = "batch"
    /\ image \in {inp \in Inputs : inp.kind = "array"}
    /\ seg \in {[kind |-> "return", value |-> lab] : lab \in LabelMaps}
    /\ spot_sigma = 1
    /\ outline_sigma = 1
    /\ threshold = [num |-> 0, den |-> ThresholdDen]
    /\ locals = Unbound("none")
    /\ edge = NoCall
    /\ log = <<>>
    /\ pc = "quantify"
    /\ prev = NoPrev
    /\ NoDriver

NextQuantify == QuantifyEdgeIntensity

SpecQuantify == InitQuantify /\ [][NextQuantify]_vars

(* The relabelling statement of cell_segmentation on its own: labels holds *)
(* any filtered label map, the watershed labels of the surviving regions   *)
(* (in a larger image they reach any value and leave any gaps)             *)
FilteredMaps == [Pix -> 0..MaxLabel]

InitRelabel ==
    /\ prog \in Progs
    /\ image = [kind |-> "object", px |-> ZeroMap]
    /\ spot_sigma = 1
    /\ outline_sigma = 1
    /\ threshold = [num |-> 0, den |-> ThresholdDen]
    /\ locals \in {[Unbound("none") EXCEPT !.outlines = lab, !.labels = lab]
                      : lab \in FilteredMaps}
    /\ seg = NoCall
    /\ edge = NoCall
    /\ log = <<>>
    /\ pc = "relabel"
    /\ prev = NoPrev
    /\ NoDriver

(* filtered_labels, _, _ = relabel_sequential(labels); return filtered_labels *)
RelabelStep ==
    /\ pc = "relabel"
    /\ \E loc \in {[locals EXCEPT !.bound = TRUE,
                        !.filtered_labels = relabel_sequential(locals.labels)]} :
          /\ locals' = loc
          /\ log' = Append(log, seg_log(loc))
          /\ seg' = seg_return(loc)
    /\ pc' = "quantify"
    /\ UNCHANGED <<prog, image, spot_sigma, outline_sigma, threshold, edge,
                   prev, driver>>

NextRelabel == RelabelStep

SpecRelabel == InitRelabel /\ [][NextRelabel]_vars

(***************************************************************************)
(* main of segment_intensity_batch.py                                      *)
(***************************************************************************)

(* File names are sequences of characters *)
TifSuffix == <<".", "t", "i", "f">>
TiffSuffix == <<".", "t", "i", "f", "f">>
ResultsName == <<"r", "e", "s", "u", "l", "t", "s", ".", "c", "s", "v">>
FileNames == {<<"a", ".", "t", "i", "f">>,
              <<"b", ".", "T", "I", "F", "F">>,
              <<"c", ".", "p", "n", "g">>}

(* str.lower() on the characters file names are made of here *)
LowerChar(c) ==
    CASE c = "T" -> "t" [] c = "I" -> "i" [] c = "F" -> "f" [] OTHER -> c
lower(str) == [k \in 1..Len(str) |-> LowerChar(str[k])]

endswith(str, suffix) ==
    /\ Len(str) >= Len(suffix)
    /\ SubSeq(str, Len(str) - Len(suffix) + 1, Len(str)) = suffix

(* input_fn.lower().endswith(('.tif', '.tiff')) *)
HasTifExtension(fn) ==
    endswith(lower(fn), TifSuffix) \/ endswith(lower(fn), TiffSuffix)

(* The images the directory's files hold: all pixels but the first at      *)
(* MaxVal (flat, one region, or a seed outside the mask)                   *)
BatchImages == {im \in Images : \A p \in Pix : p > 1 => im[p] = MaxVal}

(* A file decodes to an image, or imread raises on it *)
FileData == {[kind |-> "array", px |-> im] : im \in BatchImages}
              \cup {[kind |-> "corrupt", px |-> ZeroMap]}
Files == {[fn |-> fn, data |-> d] : fn \in FileNames, d \in FileData}
ResultsFile == [fn |-> ResultsName, data |-> [kind |-> "corrupt", px |-> ZeroMap]]

Listings ==
    UNION {{l \in [1..n -> Files] :
               \A a, b \in 1..n : a # b => l[a].fn # l[b].fn} : n \in 0..MaxFiles}

Header == <<"Image Name", "Average Edge Intensity">>

InsertAt(seq, k, e) == SubSeq(seq, 1, k) \o <<e>> \o SubSeq(seq, k + 1, Len(seq))

Info(m) == [level |-> "INFO", msg |-> m]
Error(m) == [level |-> "ERROR", msg |-> m]

InitBatch ==
    /\ prog = "batch"
    /\ image = [kind |-> "object", px |-> ZeroMap]
    /\ spot_sigma \in Sigmas
    /\ outline_sigma \in Sigmas
    /\ threshold \in Thresholds
    /\ locals = Unbound("none")
    /\ seg = NoCall
    /\ edge = NoCall
    /\ log = <<>>
    /\ pc = "open"
    /\ prev = NoPrev
    /\ listing \in {[isdir |-> TRUE, entries |-> l] : l \in Listings}
                     \cup {[isdir |-> FALSE, entries |-> <<>>]}
    /\ files = <<>>
    /\ i = 0
    /\ rows = <<>>

(* if not os.path.isdir(input_dir): logging.error(...); return *)
InputMissing ==
    /\ pc = "open"
    /\ ~listing.isdir
    /\ log' = Append(log, Error("The input directory does not exist."))
    /\ pc' = "done"
    /\ UNCHANGED <<prog, image, spot_sigma, outline_sigma, threshold, locals,
                   seg, edge, prev, driver>>

(* open(results_path, 'w') creates results.csv in the input directory and  *)
(* the header is written; the loop's os.listdir then lists results.csv     *)
(* too, at a place of the file system's choosing                           *)
OpenResults ==
    /\ pc = "open"
    /\ listing.isdir
    /\ rows' = <<Header>>
    /\ \E k \in 0..Len(listing.entries) :
          files' = InsertAt(listing.entries, k, ResultsFile)
    /\ i' = 1
    /\ pc' = "loop"
    /\ UNCHANGED <<prog, image, spot_sigma, outline_sigma, threshold, locals,
                   seg, edge, log, prev, listing>>

(* The extension check fails: logged, continue *)
SkipFile ==
    /\ pc = "loop"
    /\ i <= Len(files)
    /\ ~HasTifExtension(files[i].fn)
    /\ log' = log \o <<Info("Processing image"),
                       Error("The input file does not have a .tif or .tiff extension. Skipping.")>>
    /\ i' = i + 1
    /\ UNCHANGED <<prog, image, spot_sigma, outline_sigma, threshold, locals,
                   seg, edge, pc, prev, listing, files, rows>>

(* imread raises on the file: nothing in main catches it, the with block   *)
(* closes results.csv and the script ends with the traceback               *)
ImreadRaises ==
    /\ pc = "loop"
    /\ i <= Len(files)
    /\ HasTifExtension(files[i].fn)
    /\ files[i].data.kind # "array"
    /\ log' = Append(log, Info("Processing image"))
    /\ pc' = "crashed"
    /\ UNCHANGED <<prog, image, spot_sigma, outline_sigma, threshold, locals,
                   seg, edge, prev, driver>>

(* The rest of the loop body: imread, cell_segmentation,                   *)
(* quantify_edge_intensity, writer.writerow. An exception leaving          *)
(* cell_segmentation ends the script like one leaving imread.              *)
ProcessFile ==
    /\ pc = "loop"
    /\ i <= Len(files)
    /\ HasTifExtension(files[i].fn)
    /\ files[i].data.kind = "array"
    /\ image' = files[i].data
    /\ \E loc \in {try_batch(files[i].data, spot_sigma, outline_sigma,
                              threshold)} :
          /\ locals' = loc
          /\ seg' = seg_return(loc)
          /\ IF loc.bound
             THEN /\ edge' = quant_return(files[i].data.px, loc.filtered_labels)
                  /\ rows' = Append(rows, <<files[i].fn, edge'.value>>)
                  /\ log' = log \o <<Info("Processing image"),
                                     Info("Segmenting image..."), seg_log(loc),
                                     Info("Analyzing image..."),
                                     Info("Successfully analyzed image!"),
                                     Info("Average edge intensity"),
                                     Info("Complete!")>>
                  /\ i' = i + 1
                  /\ pc' = pc
             ELSE /\ edge' = NoCall
                  /\ rows' = rows
                  /\ log' = log \o <<Info("Processing image"),
                                     Info("Segmenting image..."), seg_log(loc)>>
                  /\ i' = i
                  /\ pc' = "crashed"
    /\ UNCHANGED <<prog, spot_sigma, outline_sigma, threshold, prev, listing,
                   files>>

(* The listing is exhausted: the with block closes results.csv *)
LoopEnd ==
    /\ pc = "loop"
    /\ i > Len(files)
    /\ pc' = "done"
    /\ UNCHANGED <<prog, image, spot_sigma, outline_sigma, threshold, locals,
                   seg, edge, log, prev, driver>>

NextBatch ==
    InputMissing \/ OpenResults \/ SkipFile \/ ImreadRaises \/ ProcessFile
        \/ LoopEnd

SpecBatch == InitBatch /\ [][NextBatch]_vars

Next == CellSegmentation \/ QuantifyEdgeIntensity \/ CallAgain

Spec == Init /\ [][Next]_vars

(***************************************************************************)
(* Properties of cell_segmentation                                         *)
(***************************************************************************)

Returned == seg.kind = "return"
Failed == seg.kind # "none" /\ locals.exc # "none"
ErrorLogged == \E n \in 1..Len(log) : log[n].level = "ERROR"

(* The number K of regions of a label map *)
K(lab) == Cardinality(regionprops(lab))

(* The float image the call works on: normalized in the demo script, the   *)
(* raw intensities in the batch script                                     *)
WorkingImage ==
    IF prog = "demo" THEN normalize(asarray(image)) ELSE asarray(image)

IsFlat(px) == \A p, q \in Pix : px[p] = px[q]

(* C1: the positive values of a returned label map are exactly 1..K for    *)
(* some K >= 0, and the pixels of no kept region are 0.                    *)
C1_DenseLabels ==
    Returned =>
        /\ \E k \in 0..Width : regionprops(seg.value) = 1..k
        /\ \A p \in Pix : seg.value[p] >= 0
        /\ \A p \in Pix : (seg.value[p] = 0) <=> (locals.labels[p] = 0)

(* C1 witness: a map is returned whose kept regions had a gap in their     *)
(* watershed labels (region 1 was filtered out, a later one was kept)      *)
C1_Witness ==
    /\ Returned
    /\ 1 \in regionprops(locals.outlines)
    /\ 1 \notin regionprops(locals.labels)
    /\ 1 \in regionprops(seg.value)

(* C2: when a step inside cell_segmentation raised, the call does not      *)
(* return a label map: it ends by raising to its caller.                   *)
C2_FailureNeverReturns == Failed => seg.kind = "raise"

(* C3: a call reports an error if and only if it returns no label map; a   *)
(* run that leaves no region returns the all-background map with no error. *)
C3_ErrorIffNoMap ==
    seg.kind # "none" => (ErrorLogged <=> ~Returned)

(* C4: quantify_edge_intensity on a label map with no positive label       *)
(* raises NoRegionsError.                                                  *)
C4_NoRegionsError ==
    (pc = "done" /\ regionprops(seg.value) = {}) =>
        edge.kind = "raise" /\ edge.exc = "NoRegionsError"

(* C5: a call on a flat image either raises DegenerateInputError or        *)
(* returns an all-background map computed from defined intensities; it     *)
(* never returns a map computed from 0/0.                                  *)
C5_FlatImage ==
    (seg.kind # "none" /\ image.kind = "array" /\ IsFlat(image.px)) =>
        \/ seg.kind = "raise" /\ seg.exc = "DegenerateInputError"
        \/ Returned /\ K(seg.value) = 0 /\ ~IsNaN(locals.intensity)

(* C7 as stated: a watershed region is kept in the output if and only if   *)
(* its mean under the min-max normalized image exceeds the threshold.      *)
C7_NormalizedMean ==
    Returned =>
        \A l \in regionprops(locals.outlines) :
            \A p \in coords(locals.outlines, l) :
                (seg.value[p] # 0) <=>
                    Greater(mean_intensity(locals.outlines, l,
                                           normalize(asarray(image))),
                            threshold)

(* C7 amended: a watershed region is kept in the output if and only if its *)
(* mean under the image the call works on (normalized in the demo script,  *)
(* raw in the batch script) is strictly greater than the threshold; every  *)
(* pixel of any other region is 0.                                         *)
C7_WorkingMean ==
    Returned =>
        \A l \in regionprops(locals.outlines) :
            \A p \in coords(locals.outlines, l) :
                (seg.value[p] # 0) <=>
                    Greater(mean_intensity(locals.outlines, l, WorkingImage),
                            threshold)

(* C7 witness: one region's mean equals the threshold and it is dropped,   *)
(* while another region is kept                                            *)
C7_Witness ==
    /\ Returned
    /\ K(seg.value) >= 1
    /\ \E l \in regionprops(locals.outlines) :
          LET m == mean_intensity(locals.outlines, l, WorkingImage)
          IN /\ m.num * threshold.den = threshold.num * m.den
             /\ \A p \in coords(locals.outlines, l) : seg.value[p] = 0

(* C8: after the same image and sigmas were segmented at a lower and then  *)
(* at a higher threshold, every region kept at the higher threshold was    *)
(* kept at the lower one, and K did not grow.                              *)
C8_Monotone ==
    (prev.valid /\ Returned /\ Greater(threshold, prev.threshold)) =>
        /\ regionprops(locals.labels) \subseteq regionprops(prev.labels)
        /\ K(seg.value) <= K(prev.filtered_labels)

(* C8 witness: the higher threshold dropped a region and kept another *)
C8_Witness ==
    /\ prev.valid /\ Returned /\ Greater(threshold, prev.threshold)
    /\ K(seg.value) >= 1
    /\ K(seg.value) < K(prev.filtered_labels)

(* C10: in a returned label map every pixel outside the watershed mask     *)
(* (working intensity not greater than 0, or raw intensity not greater     *)
(* than 0) is 0.                                                           *)
C10_MaskedPixelsUnlabelled ==
    Returned =>
        \A p \in Pix :
            (IsNaN(WorkingImage) \/ WorkingImage.px[p] <= 0 \/ image.px[p] <= 0)
                => seg.value[p] = 0

(* C10 witness: a labelled pixel lies next to a pixel outside the mask *)
C10_Witness ==
    /\ Returned
    /\ \E p \in Pix : \E q \in {p - 1, p + 1} \cap Pix :
          seg.value[p] # 0 /\ WorkingImage.px[q] <= 0

(* C11: relabelling only renames. Two pixels share a positive label in the *)
(* returned map if and only if they shared a surviving watershed label     *)
(* before relabelling; a region with a smaller original label gets a       *)
(* smaller new label; and relabelling the returned, densely labelled map   *)
(* again changes nothing.                                                  *)
C11_RelabelOnlyRenames ==
    Returned =>
        /\ \A p, q \in Pix :
              (seg.value[p] > 0 /\ seg.value[p] = seg.value[q])
                  <=> (locals.labels[p] > 0 /\ locals.labels[p] = locals.labels[q])
        /\ \A p, q \in Pix :
              (locals.labels[p] > 0 /\ locals.labels[p] < locals.labels[q])
                  => seg.value[p] < seg.value[q]
        /\ relabel_sequential(seg.value) = seg.value
        /\ (\E k \in 0..Width : regionprops(locals.labels) = 1..k)
              => seg.value = locals.labels

(* C11 witness: two regions survived under labels that were not dense, so  *)
(* relabelling renamed them, and a third pixel is background               *)
C11_Witness ==
    /\ Returned
    /\ K(seg.value) >= 2
    /\ seg.value # locals.labels
    /\ 0 \in Range(seg.value)

(***************************************************************************)
(* Properties of quantify_edge_intensity                                   *)
(***************************************************************************)

Labelled(lab) == {p \in Pix : lab[p] > 0}

Processable(f) == HasTifExtension(f.fn) /\ f.data.kind = "array"

(* C6: when the batch script has ended on an existing directory, the       *)
(* results table is the header followed by exactly one row for each        *)
(* processable file of the listing, in order, whatever else the listing    *)
(* holds.                                                                  *)
C6_OneRowPerProcessedFile ==
    (pc \in {"done", "crashed"} /\ listing.isdir) =>
        LET good == SelectSeq(files, Processable)
        IN /\ Len(rows) = 1 + Len(good)
           /\ rows[1] = Header
           /\ \A k \in 1..Len(good) : rows[k + 1][1] = good[k].fn

====
